---- MODULE Spec2Model ----
(***************************************************************************)
(* Transaction ledger and settlement reconciliation of chat-pay-BackEnd:   *)
(* PaymentController / PaymentService over the Transaction and User        *)
(* collections, with the payment gateway and the webhook sender as the     *)
(* environment.  Every await of a handler is an interleaving point.        *)
(***************************************************************************)
EXTENDS Integers, Sequences, FiniteSets, TLC

\* ---------------------------------------------------------------- bounds
NumProcs == 2          \* request handlers that may be in flight together
MaxTx == 2             \* transactions the ledger may hold
MaxOps == 3            \* requests accepted over one behaviour
MaxRequests == 2       \* largest maxRequests a limiter is built with
MaxWindowMs == 2       \* largest windowMs a limiter is built with
MaxNow == 4            \* last reading of the clock
MaxCalls == 4          \* requests one limiter handles

\* ------------------------------------------------------- program constants
MinAmount == 100       \* 'Minimum amount is 100'

Procs == 1..NumProcs
Users == {"alice", "bob"}
NoUser == "nobody"
Amounts == {50, 1000}
\* balances the users hold when the service starts
InitBalance == [u \in Users |-> IF u = "alice" THEN 1000 ELSE 50]
NoRef == 0

\* enum of the Transaction schema's `type` path
TypeEnum == {"send", "request", "receive", "refund", "fee"}
\* enum of the Transaction schema's `paymentMethod` path
PaymentMethodEnum == {"crypto", "bank", "card", "wallet"}
\* enum of the Transaction schema's `status` path
StatusEnum == {"pending", "processing", "completed", "failed", "cancelled", "refunded"}

\* Mongoose validation run by Transaction.create()/save(): enum validators
\* of the schema, `required` fromUser, amount min 0.
ValidateTransaction(doc) ==
    /\ doc.type \in TypeEnum
    /\ doc.paymentMethod \in PaymentMethodEnum
    /\ doc.status \in StatusEnum
    /\ doc.fromUser # NoUser
    /\ doc.amount >= 0

\* ------------------------------------------------------ webhook signature
SecretKey == "PAYSTACK_SECRET_KEY"
WrongKey == "other_key"
Events == {"charge.success", "transfer.failed"}
Formats == {"compact", "spaced"}

\* crypto.createHmac('sha512', key).update(bytes).digest('hex'): a MAC is
\* determined by, and determines, the key and the bytes it was made over.
Hmac(key, bytes) == <<key, bytes>>
\* data.metadata is not in the payload
NoMeta == -1
\* the body bytes a sender puts on the wire: event, data.reference,
\* data.metadata.transactionId (NoMeta without data.metadata, NoRef without
\* the member), and the spelling of the JSON text
Bytes(event, ref, meta, fmt) ==
    [event |-> event, ref |-> ref, meta |-> meta, fmt |-> fmt]
\* express.json(): the parsed body keeps the members, not the spelling
JsonParse(bytes) == [event |-> bytes.event, ref |-> bytes.ref, meta |-> bytes.meta]
\* JSON.stringify(): members in order, no insignificant white space
JsonStringify(obj) == Bytes(obj.event, obj.ref, obj.meta, "compact")

\* any header that is present is taken for a match
verifyWebhookSignatureAnyHeader(body, signature) ==
    signature # <<>>

verifyWebhookSignature(body, signature) ==
    Hmac(SecretKey, JsonStringify(body)) = signature

\* ------------------------------------------------------------------ state
VARIABLES
    balance,     \* User.balance, per user
    txs,         \* Transaction collection: sequence of documents, _id = index
    pc,          \* per handler: the await it is suspended at
    req,         \* per handler: the request it serves
    loc,         \* per handler: local variables of the running method
    res,         \* per handler: the HTTP response it produced
    debits,      \* history: per transaction, sender decrements applied
    credits,     \* history: per transaction, balance increments applied
    failedRefs,  \* history: references whose initialize call the gateway failed
    ops,         \* requests accepted so far
    published,   \* notification sink: the events published to it
    compensations, \* history: per transaction, credits by handleTransferWebhook
    limiter,     \* closure of one createRateLimit(...) middleware
    now,         \* Date.now()
    served       \* history: what the limiter did with each request

ledgerVars == <<balance, txs, pc, req, loc, res, debits, credits, failedRefs, ops>>
limiterVars == <<limiter, now, served>>
vars == <<ledgerVars, published, compensations, limiterVars>>

NoReq == [op |-> "none", user |-> NoUser, to |-> NoUser, amount |-> 0,
          ref |-> NoRef, bytes |-> Bytes("charge.success", NoRef, NoRef, "compact"),
          sig |-> <<>>]
NoLoc == [tx |-> NoRef, gwCalls |-> 0, gwRefused |-> FALSE, passed |-> FALSE]
NoRes == [http |-> 0, svc |-> "none", msg |-> "none"]

\* res.json(...) with res.status(http); svc is what the service method did:
\* "success" / "failure" (its result.success) or "threw"
Response(http, svc, msg) == [http |-> http, svc |-> svc, msg |-> msg]

TxIds == 1..Len(txs)

\* client addresses (req.ip)
IPs == {"ip1", "ip2"}

\* createRateLimit(maxRequests, windowMs): the closure with its empty Map (an
\* address without an entry has no timestamps)
createRateLimit(maxRequests, windowMs) ==
    [maxRequests |-> maxRequests, windowMs |-> windowMs,
     requests |-> [ip \in IPs |-> <<>>]]

Init ==
    /\ published = {}
    /\ compensations = [t \in 1..MaxTx |-> 0]
    /\ limiter = createRateLimit(MaxRequests, MaxWindowMs)
    /\ now = 0
    /\ served = <<>>
    /\ balance = InitBalance
    /\ txs = <<>>
    /\ pc = [p \in Procs |-> "idle"]
    /\ req = [p \in Procs |-> NoReq]
    /\ loc = [p \in Procs |-> NoLoc]
    /\ res = [p \in Procs |-> NoRes]
    /\ debits = [t \in 1..MaxTx |-> 0]
    /\ credits = [t \in 1..MaxTx |-> 0]
    /\ failedRefs = {}
    /\ ops = 0

\* a handler leaves its method: the response is written
Finish(p, response) ==
    /\ pc' = [pc EXCEPT ![p] = "done"]
    /\ res' = [res EXCEPT ![p] = response]

\* every catch block answering 500
ThrowAlways500(p, op, msg) ==
    Finish(p, Response(500, "threw", msg))

\* the catch blocks: a service error reaches the controller, which answers
\* 500, except handlePaystackWebhook, which answers 200
Throw(p, op, msg) ==
    Finish(p, Response(IF op = "webhook" THEN 200 ELSE 500, "threw", msg))

\* a service result handed to res.status(200).json(...)
Return(p, svc, msg) == Finish(p, Response(200, svc, msg))

\* the handler is suspended at its next await
Goto(p, label) ==
    /\ pc' = [pc EXCEPT ![p] = label]
    /\ UNCHANGED res

\* local variables of handler p after n gateway calls
Locals(p, tx, n, refused, passed) ==
    loc' = [loc EXCEPT ![p] = [tx |-> tx, gwCalls |-> n, gwRefused |-> refused,
                               passed |-> passed]]

\* A request reaches a handler.  It is taken by the first free handler
\* (handlers are interchangeable), and not while a finished handler is still
\* writing its response: the code from a handler's last await to res.json()
\* runs without yielding.  What a handler does before it first touches the
\* collections (validation, gateway calls, reads of fields that never
\* change) is part of the step that accepts the request: the moment a
\* request arrives is not observable.
Accept(p, request) ==
    /\ pc[p] = "idle"
    /\ \A q \in Procs : q < p => pc[q] # "idle"
    /\ ops < MaxOps
    /\ ops' = ops + 1
    /\ req' = [req EXCEPT ![p] = request]

\* User.findByIdAndUpdate(id, { $inc: { balance: delta } }): atomic in the
\* store, no schema validators run, no document when the id is unset
IncBalance(b, id, delta) ==
    IF id \in Users THEN [b EXCEPT ![id] = @ + delta] ELSE b

\* --------------------------------------------------------------- requests
\* fields of a Transaction document kept by the model
NewTx(from, to, amount, type, method, description) ==
    [fromUser |-> from, toUser |-> to, amount |-> amount, type |-> type,
     paymentMethod |-> method, status |-> "pending", description |-> description,
     originalTransaction |-> NoRef]

\* Transaction.create({... status: 'pending', type: 'send'}) of
\* PaymentService.initializePayment
IpCreate(p, u, to, a) ==
    LET doc == NewTx(u, to, a, "send", "bank", "user_desc")
    IN IF ValidateTransaction(doc)
       THEN /\ txs' = Append(txs, doc)
            /\ Locals(p, Len(txs) + 1, 0, FALSE, FALSE)
            /\ Goto(p, "ip_call")
       ELSE /\ Throw(p, "initializePayment", "Transaction validation failed")
            /\ Locals(p, NoRef, 0, FALSE, FALSE)
            /\ UNCHANGED txs

\* PaymentController.initializePayment and PaymentService.initializePayment
\* up to the gateway call
StartInitializePayment(p) ==
    /\ Len(txs) < MaxTx
    /\ \E u \in Users, to \in Users \cup {NoUser}, a \in Amounts :
        /\ Accept(p, [NoReq EXCEPT !.op = "initializePayment", !.user = u,
                                  !.to = to, !.amount = a])
        /\ IF a < MinAmount
           THEN /\ Finish(p, Response(400, "none", "Minimum amount"))
                /\ Locals(p, NoRef, 0, FALSE, FALSE)
                /\ UNCHANGED txs
           ELSE IF u = to
           THEN /\ Finish(p, Response(400, "none", "Cannot send payment to yourself"))
                /\ Locals(p, NoRef, 0, FALSE, FALSE)
                /\ UNCHANGED txs
           ELSE IF to \notin Users
           THEN /\ Throw(p, "initializePayment", "User not found")
                /\ Locals(p, NoRef, 0, FALSE, FALSE)
                /\ UNCHANGED txs
           ELSE IpCreate(p, u, to, a)
    /\ UNCHANGED <<balance, debits, credits, failedRefs>>

\* IpCall marking the transaction failed when the gateway call fails
IpCallFailsTransaction(p) ==
    /\ pc[p] = "ip_call"
    /\ \E outcome \in {"ok", "error"} :
        IF outcome = "ok"
        THEN /\ Return(p, "success", "Payment initialization successful")
             /\ Locals(p, loc[p].tx, 1, FALSE, FALSE)
             /\ UNCHANGED <<failedRefs, txs>>
        ELSE /\ Throw(p, req[p].op, "Payment initialization failed")
             /\ Locals(p, loc[p].tx, 1, TRUE, FALSE)
             /\ failedRefs' = failedRefs \cup {loc[p].tx}
             /\ txs' = [txs EXCEPT ![loc[p].tx].status = "failed"]
    /\ UNCHANGED <<balance, req, debits, credits, ops>>

\* axios.post(/transaction/initialize, { reference: transaction._id }) and
\* the return of PaymentService.initializePayment
IpCall(p) ==
    /\ pc[p] = "ip_call"
    /\ \E outcome \in {"ok", "error"} :
        IF outcome = "ok"
        THEN /\ Return(p, "success", "Payment initialization successful")
             /\ Locals(p, loc[p].tx, 1, FALSE, FALSE)
             /\ UNCHANGED failedRefs
        ELSE /\ Throw(p, req[p].op, "Payment initialization failed")
             /\ Locals(p, loc[p].tx, 1, TRUE, FALSE)
             /\ failedRefs' = failedRefs \cup {loc[p].tx}
    /\ UNCHANGED <<balance, txs, req, debits, credits, ops>>

\* outcomes of GET /transaction/verify/:reference: the request fails (or
\* data.status is false), or data.status is 'success', or anything else
GatewayOutcomes == {"error", "success", "failed"}

\* VpFind without the 'already completed' return
VpFindNoCompletedCheck(p, op, r) ==
    /\ IF r \notin TxIds
       THEN /\ Throw(p, op, "Transaction not found")
            /\ Locals(p, NoRef, 1, FALSE, FALSE)
       ELSE /\ Locals(p, r, 1, FALSE, FALSE)
            /\ Goto(p, "vp_save")
    /\ UNCHANGED txs

\* Transaction.findById(paymentData.reference) and the two checks on it
VpFind(p, op, r) ==
    /\ IF r \notin TxIds
       THEN /\ Throw(p, op, "Transaction not found")
            /\ Locals(p, NoRef, 1, FALSE, FALSE)
       ELSE IF txs[r].status = "completed"
       THEN /\ Return(p, "success", "Payment already completed")
            /\ Locals(p, r, 1, FALSE, FALSE)
       ELSE /\ Locals(p, r, 1, FALSE, FALSE)
            /\ Goto(p, "vp_save")
    /\ UNCHANGED txs

\* VpFail without the update
VpFailNoUpdate(p, r) ==
    /\ UNCHANGED txs
    /\ Return(p, "failure", "Payment failed")
    /\ Locals(p, NoRef, 1, FALSE, FALSE)

\* Transaction.updateOne({ _id: paymentData.reference }, { status: 'failed' })
VpFail(p, r) ==
    /\ txs' = IF r \in TxIds THEN [txs EXCEPT ![r].status = "failed"] ELSE txs
    /\ Return(p, "failure", "Payment failed")
    /\ Locals(p, NoRef, 1, FALSE, FALSE)

\* PaymentService.verifyPayment from its gateway call to its first await on
\* the Transaction collection; paymentData.reference is the reference that
\* was asked about
VpCall(p, op, r, outcomes) ==
    \E outcome \in outcomes :
        CASE outcome = "error" ->
                /\ Throw(p, op, "Payment verification failed")
                /\ Locals(p, NoRef, 1, TRUE, FALSE)
                /\ UNCHANGED txs
          [] outcome = "success" -> VpFind(p, op, r)
          [] outcome = "failed" -> VpFail(p, r)

\* PaymentController.verifyPayment: reference taken from the request body
StartVerifyPayment(p, outcomes) ==
    /\ \E r \in 1..MaxTx :
        /\ Accept(p, [NoReq EXCEPT !.op = "verifyPayment", !.ref = r])
        /\ VpCall(p, "verifyPayment", r, outcomes)
    /\ UNCHANGED <<balance, debits, credits, failedRefs>>

\* transaction.status = 'completed'; await transaction.save(): the modified
\* paths are written to the document whatever its stored status is by now
VpSave(p) ==
    /\ pc[p] = "vp_save"
    /\ txs' = [txs EXCEPT ![loc[p].tx].status = "completed"]
    /\ Goto(p, "vp_debit")
    /\ UNCHANGED <<balance, req, loc, debits, credits, failedRefs, ops>>

\* User.findByIdAndUpdate(transaction.fromUser, { $inc: { balance: -amount } })
VpDebit(p) ==
    /\ pc[p] = "vp_debit"
    /\ balance' = IncBalance(balance, txs[loc[p].tx].fromUser, -txs[loc[p].tx].amount)
    /\ debits' = [debits EXCEPT ![loc[p].tx] = @ + 1]
    /\ Goto(p, "vp_credit")
    /\ UNCHANGED <<txs, req, loc, credits, failedRefs, ops>>

\* VpCredit without the increment
VpCreditNoIncrement(p) ==
    /\ pc[p] = "vp_credit"
    /\ credits' = [credits EXCEPT ![loc[p].tx] = @ + 1]
    /\ Return(p, "success", "Payment verified successfully")
    /\ UNCHANGED <<balance, txs, req, loc, debits, failedRefs, ops>>

\* User.findByIdAndUpdate(transaction.toUser, { $inc: { balance: amount } })
VpCredit(p) ==
    /\ pc[p] = "vp_credit"
    /\ balance' = IncBalance(balance, txs[loc[p].tx].toUser, txs[loc[p].tx].amount)
    /\ credits' = [credits EXCEPT ![loc[p].tx] = @ + 1]
    /\ Return(p, "success", "Payment verified successfully")
    /\ UNCHANGED <<txs, req, loc, debits, failedRefs, ops>>

\* the awaits of PaymentService.verifyPayment after the transaction is read
verifyPayment(p) == VpSave(p) \/ VpDebit(p) \/ VpCredit(p)

\* what a webhook sender may put in the x-paystack-signature header for the
\* bytes it sends: the MAC of these bytes under the service's key, or (for
\* compact bytes) a MAC under another key, the service's MAC of other
\* bytes, or no header
SignatureHeaders(bytes) ==
    {Hmac(SecretKey, bytes)} \cup
    (IF bytes.fmt = "compact"
     THEN {Hmac(WrongKey, bytes),
           Hmac(SecretKey, Bytes(bytes.event, NoRef, bytes.meta, bytes.fmt)), <<>>}
     ELSE {})

\* handleWebhookEvent verifying the transactionId of the metadata
handleWebhookEventByMetadata(p, event, outcomes) ==
    IF event.event = "charge.success"
    THEN IF event.meta = NoMeta
         THEN /\ Throw(p, "webhook", "Cannot read properties of undefined")
              /\ Locals(p, NoRef, 0, FALSE, FALSE)
              /\ UNCHANGED txs
         ELSE VpCall(p, "webhook", event.meta, outcomes)
    ELSE /\ Return(p, "success", "Event processed")
         /\ Locals(p, NoRef, 0, FALSE, FALSE)
         /\ UNCHANGED txs

\* PaymentService.handleWebhookEvent: only 'charge.success' is dispatched
\* (to verifyPayment with event.data.reference, after reading
\* event.data.metadata.transactionId, which throws without data.metadata and
\* is not used), every other event is answered at once
handleWebhookEvent(p, event, outcomes) ==
    IF event.event = "charge.success"
    THEN IF event.meta = NoMeta
         THEN /\ Throw(p, "webhook", "Cannot read properties of undefined")
              /\ Locals(p, NoRef, 0, FALSE, FALSE)
              /\ UNCHANGED txs
         ELSE VpCall(p, "webhook", event.ref, outcomes)
    ELSE /\ Return(p, "success", "Event processed")
         /\ Locals(p, NoRef, 0, FALSE, FALSE)
         /\ UNCHANGED txs

\* the gateway echoes the metadata initializePayment sent with the charge:
\* transactionId is the reference
EchoedMetadata(r) == {r}
\* any sender: no data.metadata, or any transactionId
AnyMetadata(r) == {NoMeta} \cup (1..MaxTx)

\* PaymentController.handlePaystackWebhook: req.body is the parsed body;
\* anyMeta says whether the payloads are any sender's or the gateway's
handlePaystackWebhook(p, outcomes, anyMeta) ==
    /\ \E e \in Events, r \in 1..MaxTx, f \in Formats :
        \E m \in (IF anyMeta THEN AnyMetadata(r) ELSE EchoedMetadata(r)) :
        \E sig \in SignatureHeaders(Bytes(e, r, m, f)) :
            LET body == JsonParse(Bytes(e, r, m, f))
            IN /\ Accept(p, [NoReq EXCEPT !.op = "webhook", !.ref = r,
                                         !.bytes = Bytes(e, r, m, f), !.sig = sig])
               /\ IF verifyWebhookSignature(body, sig)
                  THEN handleWebhookEvent(p, body, outcomes)
                  ELSE /\ Finish(p, Response(400, "none", "Invalid signature"))
                       /\ Locals(p, NoRef, 0, FALSE, FALSE)
                       /\ UNCHANGED txs
    /\ UNCHANGED <<balance, debits, credits, failedRefs>>

\* CsFind without the 'Cannot cancel completed transaction' throw
CsFindNoCompletedCheck(p, r) ==
    IF r \notin TxIds
    THEN /\ Throw(p, "cancelTransaction", "Transaction not found")
         /\ Locals(p, NoRef, 0, FALSE, FALSE)
    ELSE /\ Locals(p, r, 0, FALSE, FALSE)
         /\ Goto(p, "cs_save")

\* PaymentService.cancelTransaction: findById and the status check
CsFind(p, r) ==
    IF r \notin TxIds
    THEN /\ Throw(p, "cancelTransaction", "Transaction not found")
         /\ Locals(p, NoRef, 0, FALSE, FALSE)
    ELSE IF txs[r].status = "completed"
    THEN /\ Throw(p, "cancelTransaction", "Cannot cancel completed transaction")
         /\ Locals(p, r, 0, FALSE, FALSE)
    ELSE /\ Locals(p, r, 0, FALSE, FALSE)
         /\ Goto(p, "cs_save")

\* StartCancelTransaction without the 403 for a requester other than fromUser
StartCancelTransactionAnyUser(p) ==
    /\ \E u \in Users, r \in 1..MaxTx :
        /\ Accept(p, [NoReq EXCEPT !.op = "cancelTransaction", !.user = u, !.ref = r])
        /\ IF r \notin TxIds
           THEN /\ Finish(p, Response(404, "none", "Transaction not found"))
                /\ Locals(p, NoRef, 0, FALSE, FALSE)
           ELSE CsFind(p, r)
    /\ UNCHANGED <<balance, txs, debits, credits, failedRefs>>

\* PaymentController.cancelTransaction: the authenticated user, the id, the
\* controller's findById with its ownership check (fromUser never changes
\* and documents are never removed), then the service's read
StartCancelTransaction(p) ==
    /\ \E u \in Users, r \in 1..MaxTx :
        /\ Accept(p, [NoReq EXCEPT !.op = "cancelTransaction", !.user = u, !.ref = r])
        /\ IF r \notin TxIds
           THEN /\ Finish(p, Response(404, "none", "Transaction not found"))
                /\ Locals(p, NoRef, 0, FALSE, FALSE)
           ELSE IF txs[r].fromUser # u
           THEN /\ Finish(p, Response(403, "none", "Only the sender can cancel a transaction"))
                /\ Locals(p, NoRef, 0, FALSE, FALSE)
           ELSE CsFind(p, r)
    /\ UNCHANGED <<balance, txs, debits, credits, failedRefs>>

\* CsSave giving the amount back to the sender
CsSaveCreditsSender(p) ==
    /\ pc[p] = "cs_save"
    /\ txs' = [txs EXCEPT ![loc[p].tx].status = "cancelled",
                          ![loc[p].tx].description = "cancel_reason"]
    /\ balance' = IncBalance(balance, txs[loc[p].tx].fromUser, txs[loc[p].tx].amount)
    /\ Return(p, "success", "Transaction cancelled successfully")
    /\ UNCHANGED <<req, loc, debits, credits, failedRefs, ops>>

\* transaction.status = 'cancelled'; transaction.description = reason; save()
CsSave(p) ==
    /\ pc[p] = "cs_save"
    /\ txs' = [txs EXCEPT ![loc[p].tx].status = "cancelled",
                          ![loc[p].tx].description = "cancel_reason"]
    /\ Return(p, "success", "Transaction cancelled successfully")
    /\ UNCHANGED <<balance, req, loc, debits, credits, failedRefs, ops>>

\* creations that are under way count against the ledger bound
Creating == Cardinality({q \in Procs : pc[q] = "it_create"})

\* PaymentController.withdraw: createTransferRecipient (POST
\* /transferrecipient), then initiateTransfer's User.findById(userId) and
\* balance check
withdraw(p) ==
    /\ Len(txs) + Creating < MaxTx
    /\ \E u \in Users, a \in Amounts, recipient \in {"ok", "error"} :
        /\ Accept(p, [NoReq EXCEPT !.op = "withdraw", !.user = u, !.amount = a])
        /\ IF recipient = "error"
           THEN /\ Throw(p, "withdraw", "Failed to create transfer recipient")
                /\ Locals(p, NoRef, 1, TRUE, FALSE)
           ELSE IF balance[u] < a
           THEN /\ Throw(p, "withdraw", "Insufficient balance")
                /\ Locals(p, NoRef, 1, FALSE, FALSE)
           ELSE /\ Locals(p, NoRef, 1, FALSE, TRUE)
                /\ Goto(p, "it_create")
    /\ UNCHANGED <<balance, txs, debits, credits, failedRefs>>

\* PaymentService.initiateTransfer after the balance check, one await at a
\* time
initiateTransfer(p) ==
    /\ pc[p] \in {"it_create", "it_call", "it_failsave", "it_debit"}
    /\ CASE pc[p] = "it_create" ->
            \* Transaction.create({... paymentMethod: 'bank_transfer', type: 'withdrawal'})
            LET doc == NewTx(req[p].user, NoUser, req[p].amount, "withdrawal",
                             "bank_transfer", "user_desc")
            IN /\ IF ValidateTransaction(doc)
                  THEN /\ txs' = Append(txs, doc)
                       /\ loc' = [loc EXCEPT ![p].tx = Len(txs) + 1]
                       /\ Goto(p, "it_call")
                  ELSE /\ Throw(p, req[p].op, "Transaction validation failed")
                       /\ UNCHANGED <<txs, loc>>
               /\ UNCHANGED <<balance, debits>>
         [] pc[p] = "it_call" ->
            \* axios.post(/transfer, { reference: transaction._id })
            /\ \E outcome \in {"error", "reject", "accept"} :
                CASE outcome = "error" ->
                        /\ loc' = [loc EXCEPT ![p].gwCalls = @ + 1, ![p].gwRefused = TRUE]
                        /\ Throw(p, req[p].op, "Transfer failed")
                  [] outcome = "reject" ->
                        /\ loc' = [loc EXCEPT ![p].gwCalls = @ + 1, ![p].gwRefused = TRUE]
                        /\ Goto(p, "it_failsave")
                  [] outcome = "accept" ->
                        /\ loc' = [loc EXCEPT ![p].gwCalls = @ + 1]
                        /\ Goto(p, "it_debit")
            /\ UNCHANGED <<balance, txs, debits>>
         [] pc[p] = "it_failsave" ->
            \* transaction.status = 'failed'; save(); throw
            /\ txs' = [txs EXCEPT ![loc[p].tx].status = "failed"]
            /\ Throw(p, req[p].op, "Transfer rejected")
            /\ UNCHANGED <<balance, loc, debits>>
         [] pc[p] = "it_debit" ->
            \* User.findByIdAndUpdate(userId, { $inc: { balance: -amount } })
            /\ balance' = IncBalance(balance, req[p].user, -req[p].amount)
            /\ debits' = [debits EXCEPT ![loc[p].tx] = @ + 1]
            /\ Return(p, "success", "Transfer queued successfully")
            /\ UNCHANGED <<txs, loc>>
    /\ UNCHANGED <<req, credits, failedRefs, ops>>

\* the response has been sent: the handler is free for the next request
Respond(p) ==
    /\ pc[p] = "done"
    /\ pc' = [pc EXCEPT ![p] = "idle"]
    /\ req' = [req EXCEPT ![p] = NoReq]
    /\ loc' = [loc EXCEPT ![p] = NoLoc]
    /\ res' = [res EXCEPT ![p] = NoRes]
    /\ UNCHANGED <<balance, txs, debits, credits, failedRefs, ops>>

\* the process is interrupted between two awaits of a handler: nothing of
\* the handler runs after that
Crash(p) ==
    /\ pc[p] \notin {"idle", "done"}
    /\ pc' = [pc EXCEPT ![p] = "idle"]
    /\ req' = [req EXCEPT ![p] = NoReq]
    /\ loc' = [loc EXCEPT ![p] = NoLoc]
    /\ res' = [res EXCEPT ![p] = NoRes]
    /\ UNCHANGED <<balance, txs, debits, credits, failedRefs, ops>>

\* transactionSchema.post('save'): the saved document is written to the
\* console; nothing is handed to the notification sink
postSave == UNCHANGED published

\* what the payment handlers leave alone: they publish nothing, never call
\* handleTransferWebhook, and their routes pass no limiter
PaymentFrame == postSave /\ UNCHANGED <<compensations, limiterVars>>

\* no handler is between its last await and its response
NoResponsePending == \A q \in Procs : pc[q] # "done"

Next ==
    \E p \in Procs :
        \/ NoResponsePending /\ StartInitializePayment(p) /\ PaymentFrame
        \/ NoResponsePending /\ IpCall(p) /\ PaymentFrame
        \/ NoResponsePending /\ StartVerifyPayment(p, GatewayOutcomes) /\ PaymentFrame
        \/ NoResponsePending /\ verifyPayment(p) /\ PaymentFrame
        \/ NoResponsePending /\ handlePaystackWebhook(p, GatewayOutcomes, FALSE) /\ PaymentFrame
        \/ NoResponsePending /\ StartCancelTransaction(p) /\ PaymentFrame
        \/ NoResponsePending /\ CsSave(p) /\ PaymentFrame
        \/ NoResponsePending /\ withdraw(p) /\ PaymentFrame
        \/ NoResponsePending /\ initiateTransfer(p) /\ PaymentFrame
        \/ NoResponsePending /\ Crash(p) /\ PaymentFrame
        \/ Respond(p) /\ PaymentFrame


Spec == Init /\ [][Next]_vars

\* Handlers run one after another: a request is accepted only when every
\* earlier one has been answered, no handler is interrupted, and the gateway
\* reports every charge it is asked about as successful.
NoneInFlight == \A q \in Procs : pc[q] = "idle"

NextSeq ==
    \E p \in Procs :
        \/ NoneInFlight /\ StartInitializePayment(p) /\ PaymentFrame
        \/ IpCall(p) /\ PaymentFrame
        \/ NoneInFlight /\ StartVerifyPayment(p, {"success"}) /\ PaymentFrame
        \/ verifyPayment(p) /\ PaymentFrame
        \/ NoneInFlight /\ handlePaystackWebhook(p, {"success"}, FALSE) /\ PaymentFrame
        \/ NoneInFlight /\ StartCancelTransaction(p) /\ PaymentFrame
        \/ CsSave(p) /\ PaymentFrame
        \/ Respond(p) /\ PaymentFrame


SpecSeq == Init /\ [][NextSeq]_vars

\* the refund document of createRefund for original t, from `from` to `to`
RefundDoc(t, from, to) ==
    [NewTx(from, to, txs[t].amount, "refund", "crypto", "refund_reason")
        EXCEPT !.originalTransaction = t]

\* createRefund with the parties of the original kept as they are
createRefundSameParties(t) ==
    /\ t \in TxIds
    /\ Len(txs) < MaxTx
    /\ LET refund == RefundDoc(t, txs[t].fromUser, txs[t].toUser)
       IN txs' = IF ValidateTransaction(refund) THEN Append(txs, refund) ELSE txs
    /\ postSave
    /\ UNCHANGED <<balance, pc, req, loc, res, debits, credits, failedRefs, ops>>
    /\ UNCHANGED <<compensations, limiterVars>>

\* transactionSchema.methods.createRefund, called on the document of
\* transaction t: a new Transaction with the parties swapped, status
\* 'pending', type 'refund', paymentMethod left to its default; refund.save()
\* validates it.  No status of the original is read.
createRefund(t) ==
    /\ t \in TxIds
    /\ Len(txs) < MaxTx
    /\ LET refund == RefundDoc(t, txs[t].toUser, txs[t].fromUser)
       IN txs' = IF ValidateTransaction(refund) THEN Append(txs, refund) ELSE txs
    /\ postSave
    /\ UNCHANGED <<balance, pc, req, loc, res, debits, credits, failedRefs, ops>>
    /\ UNCHANGED <<compensations, limiterVars>>

\* The handlers run one after another as in SpecSeq, and between two requests
\* a caller may invoke createRefund on any transaction document.
NextRefund ==
    \/ NextSeq
    \/ NoneInFlight /\ \E t \in 1..MaxTx : createRefund(t)

SpecRefund == Init /\ [][NextRefund]_vars

\* events handleTransferWebhook is written for
TransferEvents == {"transfer.success", "transfer.failed"}

\* PaymentService.handleTransferWebhook(event), run to its end: findById of
\* event.data.reference; 'transfer.success' saves the transaction as
\* completed; 'transfer.failed' saves it as failed and increments the
\* sender's balance by the amount.  The stored status is not read.
handleTransferWebhook(event, reference) ==
    /\ ops < MaxOps
    /\ ops' = ops + 1
    /\ IF reference \notin TxIds
       THEN UNCHANGED <<txs, balance, compensations>>
       ELSE IF event = "transfer.success"
       THEN /\ txs' = [txs EXCEPT ![reference].status = "completed"]
            /\ UNCHANGED <<balance, compensations>>
       ELSE IF event = "transfer.failed"
       THEN /\ txs' = [txs EXCEPT ![reference].status = "failed"]
            /\ balance' = IncBalance(balance, txs[reference].fromUser,
                                     txs[reference].amount)
            /\ compensations' = [compensations EXCEPT ![reference] = @ + 1]
       ELSE UNCHANGED <<txs, balance, compensations>>
    /\ postSave
    /\ UNCHANGED <<pc, req, loc, res, debits, credits, failedRefs, limiterVars>>

\* The handlers run one after another as in SpecSeq, and between two requests
\* a caller may invoke handleTransferWebhook with a transfer event (no route
\* or service method of the repository calls it).
NextTransfer ==
    \/ NextSeq
    \/ NoneInFlight /\ \E e \in TransferEvents, r \in 1..MaxTx :
            handleTransferWebhook(e, r)

SpecTransfer == Init /\ [][NextTransfer]_vars

\* The webhook endpoint alone, one request after another: charges are
\* initialized, and webhooks arrive from any sender, with any metadata and
\* any answer of the gateway to the verification.
NextHooks ==
    \E p \in Procs :
        \/ NoneInFlight /\ StartInitializePayment(p) /\ PaymentFrame
        \/ IpCall(p) /\ PaymentFrame
        \/ NoneInFlight /\ handlePaystackWebhook(p, GatewayOutcomes, TRUE) /\ PaymentFrame
        \/ verifyPayment(p) /\ PaymentFrame
        \/ Respond(p) /\ PaymentFrame


SpecHooks == Init /\ [][NextHooks]_vars

\* timestamps.filter(timestamp => timestamp > windowStart)
Filter(timestamps, windowStart) ==
    SelectSeq(timestamps, LAMBDA timestamp : timestamp > windowStart)

\* the limiter refusing only above maxRequests
rateLimitOffByOne(ip) ==
    /\ Len(served) < MaxCalls
    /\ LET windowStart == now - limiter.windowMs
           cleaned == [i \in IPs |-> Filter(limiter.requests[i], windowStart)]
       IN IF Len(cleaned[ip]) > limiter.maxRequests
          THEN /\ limiter' = [limiter EXCEPT !.requests = cleaned]
               /\ served' = Append(served, [ip |-> ip, at |-> now, status |-> 429])
          ELSE /\ limiter' = [limiter EXCEPT
                                !.requests = [cleaned EXCEPT ![ip] = Append(@, now)]]
               /\ served' = Append(served, [ip |-> ip, at |-> now, status |-> 0])
    /\ UNCHANGED <<now, ledgerVars, published, compensations>>

\* the middleware returned by createRateLimit, for a request from ip: old
\* timestamps of every address are dropped, then the request is answered 429
\* or recorded and handed to next() (status 0: no answer by the limiter)
rateLimit(ip) ==
    /\ Len(served) < MaxCalls
    /\ LET windowStart == now - limiter.windowMs
           cleaned == [i \in IPs |-> Filter(limiter.requests[i], windowStart)]
       IN IF Len(cleaned[ip]) >= limiter.maxRequests
          THEN /\ limiter' = [limiter EXCEPT !.requests = cleaned]
               /\ served' = Append(served, [ip |-> ip, at |-> now, status |-> 429])
          ELSE /\ limiter' = [limiter EXCEPT
                                !.requests = [cleaned EXCEPT ![ip] = Append(@, now)]]
               /\ served' = Append(served, [ip |-> ip, at |-> now, status |-> 0])
    /\ UNCHANGED <<now, ledgerVars, published, compensations>>

\* a millisecond passes
Tick ==
    /\ now < MaxNow
    /\ now' = now + 1
    /\ UNCHANGED <<limiter, served, ledgerVars, published, compensations>>

\* a limiter built with any maxRequests and windowMs, before its first
\* request
InitRateLimit ==
    /\ published = {}
    /\ compensations = [t \in 1..MaxTx |-> 0]
    /\ \E maxRequests \in 1..MaxRequests, windowMs \in 1..MaxWindowMs :
        limiter = createRateLimit(maxRequests, windowMs)
    /\ now = 0
    /\ served = <<>>
    /\ balance = InitBalance
    /\ txs = <<>>
    /\ pc = [p \in Procs |-> "idle"]
    /\ req = [p \in Procs |-> NoReq]
    /\ loc = [p \in Procs |-> NoLoc]
    /\ res = [p \in Procs |-> NoRes]
    /\ debits = [t \in 1..MaxTx |-> 0]
    /\ credits = [t \in 1..MaxTx |-> 0]
    /\ failedRefs = {}
    /\ ops = 0

NextRateLimit ==
    \/ Tick
    \/ \E ip \in IPs : rateLimit(ip)

SpecRateLimit == InitRateLimit /\ [][NextRateLimit]_vars

TypeOK ==
    /\ balance \in [Users -> Int]
    /\ Len(txs) <= MaxTx
    /\ \A t \in TxIds : ValidateTransaction(txs[t])
    /\ failedRefs \subseteq TxIds
    /\ ops \in 0..MaxOps

\* ----------------------------------------------------------------- claims
\* the request of handler p is a delivery of a charge success for reference
\* t that reached verifyPayment: a client verify call or an accepted
\* charge.success webhook
IsDelivery(p, t) ==
    /\ req[p].ref = t
    /\ \/ req[p].op = "verifyPayment"
       \/ /\ req[p].op = "webhook"
          /\ req[p].bytes.event = "charge.success"
          /\ req[p].sig = Hmac(SecretKey, JsonStringify(JsonParse(req[p].bytes)))

\* what the ledger's history says user u's balance is: the opening balance,
\* plus every increment and minus every decrement applied for transactions
\* 1..n
RECURSIVE Booked(_, _)
Booked(u, n) ==
    IF n = 0 THEN InitBalance[u]
    ELSE Booked(u, n - 1)
         + (IF n \in TxIds /\ txs[n].toUser = u THEN credits[n] * txs[n].amount ELSE 0)
         - (IF n \in TxIds /\ txs[n].fromUser = u THEN debits[n] * txs[n].amount ELSE 0)

\* C1: when a client verifyPayment and a charge.success webhook for the same
\* transaction overlap, the sender is debited once and the receiver credited
\* once.
C1_RaceAppliesOnce ==
    \A p, q \in Procs, t \in TxIds :
        (p # q /\ IsDelivery(p, t) /\ IsDelivery(q, t)
              /\ req[p].op = "verifyPayment" /\ req[q].op = "webhook")
        => (debits[t] <= 1 /\ credits[t] <= 1)

\* C2: success deliveries for one charge processed one after another debit
\* the sender once and credit the receiver once; every delivery that has
\* answered has answered success and left the transaction completed with the
\* balances moved exactly once.
C2_SequentialDeliveriesApplyOnce ==
    /\ \A t \in TxIds : debits[t] <= 1 /\ credits[t] <= 1
    /\ \A u \in Users : balance[u] = Booked(u, MaxTx)
    /\ \A p \in Procs, t \in TxIds :
        (pc[p] = "done" /\ IsDelivery(p, t))
        => /\ res[p].http = 200
           /\ res[p].svc = "success"
           /\ txs[t].status = "completed"
           /\ debits[t] = 1
           /\ credits[t] = 1

\* C2 witness: a second delivery has answered 'already completed' and the
\* amount has moved once.
C2_Witness ==
    \E p \in Procs, t \in TxIds :
        /\ pc[p] = "done"
        /\ IsDelivery(p, t)
        /\ res[p].msg = "Payment already completed"
        /\ debits[t] = 1
        /\ credits[t] = 1
        /\ balance[txs[t].fromUser] = InitBalance[txs[t].fromUser] - txs[t].amount
        /\ balance[txs[t].toUser] = InitBalance[txs[t].toUser] + txs[t].amount

\* C3: a cancelled transaction never becomes completed.
C3_CancelledNeverCompleted ==
    [][\A t \in TxIds :
        txs[t].status = "cancelled" => txs'[t].status # "completed"]_vars

\* C4: every user's balance is >= 0 in every reachable state.
C4_BalanceNonNegative ==
    \A u \in Users : balance[u] >= 0

\* C5: of two overlapping withdrawals of one user whose amounts together
\* exceed the balance, at most one passes the balance check, and the balance
\* stays >= 0.
C5_OneWithdrawalPassesCheck ==
    \A p, q \in Procs :
        (/\ p # q
         /\ req[p].op = "withdraw" /\ req[q].op = "withdraw"
         /\ req[p].user = req[q].user
         /\ req[p].amount + req[q].amount > InitBalance[req[p].user])
        => /\ ~(loc[p].passed /\ loc[q].passed)
           /\ balance[req[p].user] >= 0

\* C6: when no reconciliation is in flight, a transaction is completed if and
\* only if both of its balance effects have been applied.
C6_CompletedIffBothEffects ==
    (\A p \in Procs : pc[p] \in {"idle", "done"})
    => \A t \in TxIds :
        (txs[t].status = "completed") <=> (debits[t] >= 1 /\ credits[t] >= 1)

\* C7: a withdrawal that passed the balance check and was refused nothing by
\* the gateway has, when it answers, recorded a withdrawal transaction for
\* the user and reduced the balance by the amount.
C7_WithdrawalRecordedAndDebited ==
    \A p \in Procs :
        (/\ pc[p] = "done"
         /\ req[p].op = "withdraw"
         /\ loc[p].passed
         /\ ~loc[p].gwRefused)
        => /\ res[p].svc = "success"
           /\ loc[p].tx \in TxIds
           /\ txs[loc[p].tx].type = "withdrawal"
           /\ txs[loc[p].tx].fromUser = req[p].user
           /\ debits[loc[p].tx] = 1

\* C8: when the webhook endpoint has answered a validly signed
\* transfer.failed event for a transaction, that transaction is failed.
C8_TransferFailedMarksFailed ==
    \A p \in Procs :
        (/\ pc[p] = "done"
         /\ req[p].op = "webhook"
         /\ req[p].bytes.event = "transfer.failed"
         /\ req[p].sig = Hmac(SecretKey, req[p].bytes)
         /\ res[p].http = 200
         /\ req[p].ref \in TxIds)
        => txs[req[p].ref].status = "failed"

\* C9: a withdrawal rejected for insufficient balance has made no call to
\* the gateway.
C9_InsufficientBeforeGateway ==
    \A p \in Procs :
        (/\ pc[p] = "done"
         /\ req[p].op = "withdraw"
         /\ res[p].msg = "Insufficient balance")
        => loc[p].gwCalls = 0

\* the header of handler p's webhook request is not the MAC the service
\* computes for the body it was handed
SignatureMismatch(r) ==
    /\ r.op = "webhook"
    /\ r.sig # Hmac(SecretKey, JsonStringify(JsonParse(r.bytes)))

\* C10: a webhook whose signature header does not match the computed
\* signature is answered 400 in the step that accepts it, changes no
\* transaction and no balance, and is never inside handleWebhookEvent.
C10_InvalidSignatureRejected ==
    [][\A p \in Procs :
        SignatureMismatch(req'[p])
        => /\ pc'[p] = "done"
           /\ res'[p].http = 400
           /\ (pc[p] = "idle" => (txs' = txs /\ balance' = balance))]_vars

\* C10 witness: a webhook carrying a MAC made with the service's key over
\* other bytes, naming a pending transaction, has been answered 400.
C10_Witness ==
    \E p \in Procs :
        /\ pc[p] = "done"
        /\ req[p].op = "webhook"
        /\ req[p].bytes.event = "charge.success"
        /\ req[p].sig = Hmac(SecretKey, Bytes("charge.success", NoRef, req[p].ref, "compact"))
        /\ req[p].sig # Hmac(SecretKey, req[p].bytes)
        /\ res[p].http = 400
        /\ req[p].ref \in TxIds
        /\ txs[req[p].ref].status = "pending"

\* C11: once a transaction is completed or failed, no step of a verification
\* or webhook changes its status.
C11_CompletedAndFailedAreTerminal ==
    [][\A t \in TxIds :
        txs[t].status \in {"completed", "failed"}
        => txs'[t].status = txs[t].status]_vars

\* C12: when no handler is in flight, a transaction that is cancelled has no
\* balance effect applied.
C12_CancelledHasNoBalanceEffect ==
    (\A p \in Procs : pc[p] = "idle")
    => \A t \in TxIds :
        txs[t].status = "cancelled" => ~(debits[t] >= 1 /\ credits[t] >= 1)

\* C13: a cancelTransaction that answers success found the transaction in
\* status pending or processing when it saved.
C13_CancelOnlyPendingOrProcessing ==
    [][\A p \in Procs :
        (pc[p] = "cs_save" /\ pc'[p] = "done" /\ res'[p].svc = "success")
        => txs[loc[p].tx].status \in {"pending", "processing"}]_vars

\* C14: a cancelTransaction that reads its transaction as completed answers
\* with the service's error in that step and changes no transaction and no
\* balance.
C14_CancelCompletedRejected ==
    [][\A p \in Procs :
        (/\ pc[p] = "idle"
         /\ req'[p].op = "cancelTransaction"
         /\ req'[p].ref \in TxIds
         /\ txs[req'[p].ref].status = "completed"
         /\ txs[req'[p].ref].fromUser = req'[p].user)
        => /\ pc'[p] = "done"
           /\ res'[p] = Response(500, "threw", "Cannot cancel completed transaction")
           /\ txs' = txs
           /\ balance' = balance]_vars

\* C14 witness: the sender's cancel of a completed transaction, both balance
\* effects applied, has been answered with the error.
C14_Witness ==
    \E p \in Procs :
        /\ pc[p] = "done"
        /\ req[p].op = "cancelTransaction"
        /\ res[p].msg = "Cannot cancel completed transaction"
        /\ txs[req[p].ref].status = "completed"
        /\ txs[req[p].ref].description = "user_desc"
        /\ debits[req[p].ref] = 1
        /\ credits[req[p].ref] = 1

\* C15: a cancel request by a user other than the transaction's fromUser is
\* answered 403 in the step that accepts it and changes nothing; the save of
\* cancelTransaction is only ever run for the transaction's fromUser.
C15_OnlySenderCancels ==
    [][\A p \in Procs :
        /\ (/\ pc[p] = "idle"
            /\ req'[p].op = "cancelTransaction"
            /\ req'[p].ref \in TxIds
            /\ txs[req'[p].ref].fromUser # req'[p].user)
           => /\ pc'[p] = "done"
              /\ res'[p].http = 403
              /\ txs' = txs
              /\ balance' = balance
        /\ (pc[p] = "cs_save" /\ txs' # txs)
           => req[p].user = txs[loc[p].tx].fromUser]_vars

\* C15 witness: the receiver of a pending transaction asked to cancel it and
\* was answered 403; the transaction is still pending.
C15_Witness ==
    \E p \in Procs :
        /\ pc[p] = "done"
        /\ req[p].op = "cancelTransaction"
        /\ req[p].ref \in TxIds
        /\ req[p].user = txs[req[p].ref].toUser
        /\ res[p].http = 403
        /\ txs[req[p].ref].status = "pending"
        /\ txs[req[p].ref].description = "user_desc"

\* C16: a refund transaction is only ever created for an original whose
\* status is completed.
C16_RefundOnlyOfCompleted ==
    [][(Len(txs') = Len(txs) + 1 /\ txs'[Len(txs')].type = "refund")
       => txs[txs'[Len(txs')].originalTransaction].status = "completed"]_vars

\* what transaction t has added to user u's balance
NetEffect(u, t) ==
    (IF txs[t].toUser = u THEN credits[t] * txs[t].amount ELSE 0)
    - (IF txs[t].fromUser = u THEN debits[t] * txs[t].amount ELSE 0)

\* C17: createRefund on a completed transaction T appends a pending refund
\* from T's receiver to T's sender, of T's amount, with originalTransaction
\* T, and moves no balance; when a refund and its original are both
\* completed and no handler is in flight, each was applied once, they
\* cancel out for every user, and the balances are what the history says.
C17_RefundRoundTrip ==
    /\ [][\A t \in TxIds :
            (Len(txs') = Len(txs) + 1 /\ txs'[Len(txs')].type = "refund"
                /\ txs'[Len(txs')].originalTransaction = t
                /\ txs[t].status = "completed")
            => /\ txs' = Append(txs, [fromUser |-> txs[t].toUser,
                                      toUser |-> txs[t].fromUser,
                                      amount |-> txs[t].amount,
                                      type |-> "refund",
                                      paymentMethod |-> "crypto",
                                      status |-> "pending",
                                      description |-> "refund_reason",
                                      originalTransaction |-> t])
               /\ balance' = balance
               /\ debits' = debits
               /\ credits' = credits]_vars
    /\ [](\A r \in TxIds :
            (/\ NoneInFlight
             /\ txs[r].type = "refund"
             /\ txs[r].status = "completed"
             /\ txs[txs[r].originalTransaction].status = "completed")
            => /\ debits[r] = 1 /\ credits[r] = 1
               /\ debits[txs[r].originalTransaction] = 1
               /\ credits[txs[r].originalTransaction] = 1
               /\ \A u \in Users :
                    /\ NetEffect(u, r) + NetEffect(u, txs[r].originalTransaction) = 0
                    /\ balance[u] = Booked(u, MaxTx))

\* C17 witness: a charge from X to Y was completed, refunded by createRefund,
\* the refund was completed by a later reconciliation, and both users hold
\* their opening balances again.
C17_Witness ==
    \E r \in TxIds :
        /\ NoneInFlight
        /\ txs[r].type = "refund"
        /\ txs[r].status = "completed"
        /\ txs[r].originalTransaction \in TxIds
        /\ txs[txs[r].originalTransaction].status = "completed"
        /\ txs[txs[r].originalTransaction].type = "send"
        /\ txs[r].fromUser = txs[txs[r].originalTransaction].toUser
        /\ debits[r] = 1 /\ credits[r] = 1
        /\ debits[txs[r].originalTransaction] = 1
        /\ \A u \in Users : balance[u] = InitBalance[u]

\* C18: when initializePayment has answered success, the transaction it
\* created is in status processing.
C18_InitializedIsProcessing ==
    \A p \in Procs :
        (/\ pc[p] = "done"
         /\ req[p].op = "initializePayment"
         /\ res[p].svc = "success")
        => txs[loc[p].tx].status = "processing"

C20_RetrySendsSameReference ==
    \A p \in Procs :
        pc[p] = "ip_call"
        => /\ loc[p].tx \in TxIds
           /\ \A t \in failedRefs :
                (/\ txs[t].fromUser = req[p].user
                 /\ txs[t].toUser = req[p].to
                 /\ txs[t].amount = req[p].amount)
                => loc[p].tx = t

\* C21: for every transaction, the compensating credit of transfer-failed
\* handling has been applied at most once, however many transfer events were
\* handled for it.
C21_CompensatedAtMostOnce ==
    \A t \in TxIds : compensations[t] <= 1

\* C22: a verification whose gateway result is not success answers 'Payment
\* failed' in the step that accepts it, leaves the transaction failed and
\* changes no balance and no other transaction.
C22_FailedVerificationMarksFailed ==
    [][\A p \in Procs :
        (pc[p] = "idle" /\ pc'[p] = "done" /\ res'[p].msg = "Payment failed"
            /\ req'[p].ref \in TxIds)
        => /\ res'[p].svc = "failure"
           /\ txs'[req'[p].ref].status = "failed"
           /\ \A t \in TxIds : t # req'[p].ref => txs'[t] = txs[t]
           /\ balance' = balance
           /\ debits' = debits
           /\ credits' = credits]_vars

\* C22 witness: a client verification of a pending charge got a non-success
\* gateway result: the charge is failed, every balance as at the start.
C22_Witness ==
    \E p \in Procs :
        /\ pc[p] = "done"
        /\ req[p].op = "verifyPayment"
        /\ res[p].msg = "Payment failed"
        /\ req[p].ref \in TxIds
        /\ txs[req[p].ref].status = "failed"
        /\ txs[req[p].ref].type = "send"
        /\ balance = InitBalance

\* C23: when no handler is in flight, every transaction in a terminal status
\* has an event in the notification sink, and so has every transaction with
\* a balance effect.
C23_TerminalIsPublished ==
    NoneInFlight
    => \A t \in TxIds :
        (txs[t].status \in {"completed", "failed", "cancelled"}
            \/ debits[t] > 0 \/ credits[t] > 0)
        => \E e \in published : e.transaction = t

\* C24: a webhook whose signature header is the MAC, under the service's
\* key, of the bytes it was received as is not answered 400.
C24_RawBytesSignatureAccepted ==
    \A p \in Procs :
        (/\ pc[p] = "done"
         /\ req[p].op = "webhook"
         /\ req[p].sig = Hmac(SecretKey, req[p].bytes))
        => res[p].http # 400

\* C25: every change of a transaction or of its balance effects made while
\* webhooks are handled is made by a validly signed webhook, for the
\* transaction its data.reference names, after one answered call to the
\* gateway; balances move only for a transaction saved as completed.
C25_ReferenceSelectsTransaction ==
    [][\A t \in TxIds :
        (txs'[t] # txs[t] \/ debits'[t] # debits[t] \/ credits'[t] # credits[t])
        => \E p \in Procs :
            /\ req'[p].op = "webhook"
            /\ verifyWebhookSignature(JsonParse(req'[p].bytes), req'[p].sig)
            /\ req'[p].bytes.ref = t
            /\ loc'[p].gwCalls = 1
            /\ ~loc'[p].gwRefused
            /\ (balance' # balance => txs[t].status = "completed")]_vars

\* C25 witness: a webhook naming one transaction as data.reference and
\* another as metadata.transactionId has completed the first and left the
\* second pending and without balance effect.
C25_Witness ==
    \E p \in Procs :
        /\ pc[p] = "done"
        /\ req[p].op = "webhook"
        /\ res[p].msg = "Payment verified successfully"
        /\ req[p].bytes.meta \in TxIds
        /\ req[p].bytes.meta # req[p].bytes.ref
        /\ txs[req[p].bytes.ref].status = "completed"
        /\ debits[req[p].bytes.ref] = 1
        /\ txs[req[p].bytes.meta].status = "pending"
        /\ debits[req[p].bytes.meta] = 0
        /\ credits[req[p].bytes.meta] = 0

\* C26: a step changes a balance only if it is the sender debit or receiver
\* credit of a charge completion or the debit of a withdrawal; no step of an
\* initializePayment or cancelTransaction request changes one.
C26_BalanceChangesOnlyInReconciliation ==
    [][/\ balance' # balance
          => \E p \in Procs :
                /\ pc[p] \in {"vp_debit", "vp_credit", "it_debit"}
                /\ pc'[p] # pc[p]
       /\ \A p \in Procs :
            (req'[p].op \in {"initializePayment", "cancelTransaction"}
                /\ (pc'[p] # pc[p] \/ req'[p] # req[p]))
            => balance' = balance]_vars

\* C26 witness: a cancelTransaction has answered success and its transaction is
\* cancelled, after an initializePayment created it: both requests ran and the
\* balances are the opening ones.
C26_Witness ==
    \E p \in Procs :
        /\ pc[p] = "done"
        /\ req[p].op = "cancelTransaction"
        /\ res[p].svc = "success"
        /\ txs[req[p].ref].status = "cancelled"
        /\ debits[req[p].ref] = 0 /\ credits[req[p].ref] = 0
        /\ balance = InitBalance

\* the total of all balances
RECURSIVE Total(_, _)
Total(b, us) ==
    IF us = {} THEN 0
    ELSE LET u == CHOOSE x \in us : TRUE IN b[u] + Total(b, us \ {u})

\* C28: whenever no reconciliation is between its debit and its credit, the
\* total of all balances is the opening total; a reconciliation that has
\* answered 'verified successfully' took from the sender what it gave to the
\* receiver.
C28_ReconciliationConservesTotal ==
    (\A p \in Procs : pc[p] # "vp_credit")
    => /\ Total(balance, Users) = Total(InitBalance, Users)
       /\ \A p \in Procs :
            (pc[p] = "done" /\ res[p].msg = "Payment verified successfully")
            => debits[loc[p].tx] = credits[loc[p].tx]

\* C28 witness: a reconciliation has run to its end and moved the amount
\* from the sender to the receiver.
C28_Witness ==
    \E p \in Procs :
        /\ pc[p] = "done"
        /\ res[p].msg = "Payment verified successfully"
        /\ balance[txs[loc[p].tx].fromUser]
            = InitBalance[txs[loc[p].tx].fromUser] - txs[loc[p].tx].amount
        /\ balance[txs[loc[p].tx].toUser]
            = InitBalance[txs[loc[p].tx].toUser] + txs[loc[p].tx].amount

\* C29: a webhook request is answered 200 if the service accepts its
\* signature, whatever the event and whatever became of the processing, and
\* 400 otherwise.
C29_ValidWebhookAnswered200 ==
    [][\A p \in Procs :
        (req'[p].op = "webhook" /\ pc'[p] = "done" /\ pc[p] # "done")
        => IF verifyWebhookSignature(JsonParse(req'[p].bytes), req'[p].sig)
           THEN res'[p].http = 200
           ELSE res'[p].http = 400]_vars

\* C29 witness: the processing of a validly signed charge.success webhook
\* threw, and the endpoint answered 200.
C29_Witness ==
    \E p \in Procs :
        /\ pc[p] = "done"
        /\ req[p].op = "webhook"
        /\ req[p].bytes.event = "charge.success"
        /\ verifyWebhookSignature(JsonParse(req[p].bytes), req[p].sig)
        /\ res[p].svc = "threw"
        /\ res[p].http = 200

\* requests from ip the limiter handed to next() at a time in (lo, hi]
CountIn(log, ip, lo, hi) ==
    Cardinality({i \in 1..Len(log) :
        /\ log[i].ip = ip
        /\ log[i].status = 0
        /\ log[i].at > lo
        /\ log[i].at <= hi})

\* C30: in every window of windowMs milliseconds up to any time t the
\* limiter has passed at most maxRequests requests of each address; a
\* request is refused exactly when maxRequests passed requests of its address
\* lie in the window ending now, a refused request adds no timestamp, and a
\* passed one adds one.
C30_RateLimitWindow ==
    /\ [](\A ip \in IPs, t \in 0..MaxNow :
            CountIn(served, ip, t - limiter.windowMs, t) <= limiter.maxRequests)
    /\ [][Len(served') = Len(served) + 1
          => LET r == served'[Len(served')]
                 n == CountIn(served, r.ip, now - limiter.windowMs, now)
             IN /\ (r.status = 429) <=> (n >= limiter.maxRequests)
                /\ r.status \in {0, 429}
                /\ Len(limiter'.requests[r.ip]) = (IF r.status = 429 THEN n ELSE n + 1)]_vars

\* C30 witness: an address was passed maxRequests times, then refused, and
\* passed again after the window had moved on.
C30_Witness ==
    \E i, j, k \in 1..Len(served) :
        /\ i < j /\ j < k
        /\ served[i].ip = served[j].ip /\ served[j].ip = served[k].ip
        /\ served[i].status = 0
        /\ served[j].status = 429
        /\ served[k].status = 0
        /\ CountIn(served, served[j].ip, served[j].at - limiter.windowMs, served[j].at)
            = limiter.maxRequests
====
